---- MODULE Spec2Model ----
(***************************************************************************)
(* Model of cfp-sphinx.py: CfpSphinx.generate() walks the four tables      *)
(* cfp_gubernia -> cfp_uezd -> cfp_locality -> cfp_church depth first,      *)
(* creates one directory per row and writes one index.rst per non-leaf     *)
(* node.  The file system is a set of directories plus a map from file     *)
(* paths to file contents; a path is a sequence of segments and a file's   *)
(* content is the sequence of its lines.                                   *)
(***************************************************************************)
EXTENDS Integers, Sequences, FiniteSets, TLC

(* ----------------------------- bounds --------------------------------- *)
\* largest number of rows in one table
MaxRows == 2
\* largest number of rows in the four tables together
MaxNodes == 5

VARIABLES
  db,           \* the four tables, read only: table name -> sequence of rows
  dirs,         \* the directories that exist (absolute segment sequences)
  files,        \* the regular files that exist: path -> sequence of lines
  cur,          \* self.cur: the result set of the last execute and the read position
  current_gub,  \* self.__current_gub
  stack,        \* the call stack of the __gen_* methods, innermost frame last
  status,       \* "start", "running", "done" (returned) or "failed" (process exited)
  exitcode,     \* exit status of the process, -1 while it runs
  run,          \* which invocation of the tool this is (1 or 2)
  log           \* the queries, directory creations and file writes issued in this run

vars == <<db, dirs, files, cur, current_gub, stack, status, exitcode, run, log>>

(* --------------------------- python values ---------------------------- *)
PyNone == [type |-> "NoneType"]

PyStr(s) == [type |-> "str", val |-> s]

\* str.format / '%s' / f-string rendering of a value
Str(v) == IF v.type = "NoneType" THEN "None"
          ELSE IF v.type = "int" THEN ToString(v.val)
          ELSE v.val

PyInt(n) == [type |-> "int", val |-> n]

(* ------------------------------- paths -------------------------------- *)
\* os.path.join: an absolute second component discards the first
pj(a, b) == IF b.abs THEN b ELSE [abs |-> a.abs, segs |-> a.segs \o b.segs]

Rel(segs) == [abs |-> FALSE, segs |-> segs]

\* os.path.abspath(os.getcwd())
Cwd == [abs |-> TRUE, segs |-> <<"cwd">>]

root_dir == pj(Cwd, Rel(<<"nsa", "cfp">>))

Prefixes(segs) == {SubSeq(segs, 1, k) : k \in 0..Len(segs)}

\* os.makedirs(os.path.join(self.root_dir, path), exist_ok=True): the set of
\* directories afterwards
make_dirs(path) == dirs \cup Prefixes(pj(root_dir, path).segs)

\* variant: the file is opened for appending ('a+')
file_write_append(fn, rst) ==
  LET t == pj(root_dir, fn).segs
  IN  [p \in DOMAIN files \cup {t} |->
         IF p = t THEN (IF t \in DOMAIN files THEN files[t] \o rst ELSE rst)
         ELSE files[p]]

\* the file system after open(os.path.join(self.root_dir, fn), 'w+'),
\* write(rst), close(): the file holds exactly rst
file_write(fn, rst) ==
  LET t == pj(root_dir, fn).segs
  IN  [p \in DOMAIN files \cup {t} |-> IF p = t THEN rst ELSE files[p]]

\* open(..., 'w+') needs the directory of the file to exist
CanOpen(fn) ==
  LET t == pj(root_dir, fn).segs
  IN  SubSeq(t, 1, Len(t) - 1) \in dirs

(* ------------------------------ text ---------------------------------- *)
\* a line of text: its leading blanks and what follows, split at '/'
Line(n, parts) == [indent |-> n, text |-> parts]

Blank == Line(0, <<"">>)

\* '   %s' % name
format3(parts) == Line(3, parts)

\* self.tree_templ.format(title=..., members=...), split into lines
tree_templ(title, members) ==
  << Blank,
     Line(0, <<".. Tree RST template">>),
     Line(0, <<".. Autogenerated by cfp-sphinx.py">>),
     Blank,
     Line(0, <<Str(title)>>),
     Blank,
     Line(0, <<".. toctree::">>),
     Line(3, <<":maxdepth: 2">>),
     Blank >> \o members \o << Blank, Blank >>

TitleOf(doc) == doc[5].text[1]

MembersOf(doc) == SubSeq(doc, 10, Len(doc) - 2)

(* ----------------------------- database ------------------------------- *)
TableNames == {"cfp_gubernia", "cfp_uezd", "cfp_locality", "cfp_church"}

ParentTable(t) == CASE t = "cfp_uezd" -> "cfp_gubernia"
                    [] t = "cfp_locality" -> "cfp_uezd"
                    [] t = "cfp_church" -> "cfp_locality"

\* the display name stored with row id of table t
NameOf(t, id) == CASE t = "cfp_gubernia" -> "Oblast" \o ToString(id)
                   [] t = "cfp_uezd" -> "Rayon" \o ToString(id)
                   [] t = "cfp_locality" -> "Selo" \o ToString(id)
                   [] t = "cfp_church" -> "Khram" \o ToString(id)

IdsIn(tbl) == {tbl[k].id : k \in 1..Len(tbl)}

Min(a, b) == IF a < b THEN a ELSE b

\* the orders in which the ids 1..n can be stored
Orders(n) == {f \in [1..n -> 1..n] : \A j, k \in 1..n : j # k => f[j] # f[k]}

\* every table of n <= Min(MaxRows, room) rows whose ids are 1..n in some order
\* (the id is the primary key) and whose parent references lie in ps
TablesOver(t, ps, room) ==
  UNION { { [k \in 1..n |-> [id |-> o[k], name |-> NameOf(t, o[k]), parent |-> par[k]]]
            : o \in Orders(n), par \in [1..n -> ps] }
          : n \in 0..Min(MaxRows, room) }

\* "SELECT id, name FROM <t>" (key = 0) or "... WHERE <parent>_id = key",
\* in the order of the store
Select(t, key) ==
  LET Hit(r) == (t = "cfp_gubernia") \/ r.parent = key
      RECURSIVE Scan(_)
      Scan(k) == IF k > Len(db[t]) THEN <<>>
                 ELSE IF Hit(db[t][k])
                      THEN <<[id |-> db[t][k].id, name |-> db[t][k].name]>> \o Scan(k + 1)
                      ELSE Scan(k + 1)
  IN  Scan(1)

(* --------------------------- the generator ---------------------------- *)
\* the table a method queries
TableOf(fn) == CASE fn = "gubernias" -> "cfp_gubernia"
                 [] fn = "uezds" -> "cfp_uezd"
                 [] fn = "localities" -> "cfp_locality"
                 [] fn = "churches" -> "cfp_church"

\* variant: the segment of __gen_uezds pasted into __gen_churches
ChildSeg_CopyPaste(fn) == CASE fn = "gubernias" -> "gubernia"
                            [] fn = "uezds" -> "uezd"
                            [] fn = "localities" -> "locality"
                            [] fn = "churches" -> "uezd"

\* the directory segment under which a method creates its children
ChildSeg(fn) == CASE fn = "gubernias" -> "gubernia"
                  [] fn = "uezds" -> "uezd"
                  [] fn = "localities" -> "locality"
                  [] fn = "churches" -> "church"

\* the line a method appends to its member list for the child row id
Link(fn, id) ==
  CASE fn = "gubernias" -> format3(<<Str(PyInt(id)), "index">>)
    [] fn = "uezds" -> format3(<<"uezd", Str(PyInt(id)), "index">>)
    [] fn = "localities" -> format3(<<"uezd", Str(PyInt(id)), "index">>)
    [] fn = "churches" -> format3(<<"uezd", Str(PyInt(id)), "index">>)

\* variant: the child's id is left out of its directory path
ChildDir_NoId(fn, pdir, id) == pj(pdir, Rel(<<ChildSeg(fn)>>))

\* child_dir = pj(pdir, '<kind>', str(id))
ChildDir(fn, pdir, id) == pj(pdir, Rel(<<ChildSeg(fn), Str(PyInt(id))>>))

\* the method called on each child, "" when the loop body calls none
Callee(fn) == CASE fn = "gubernias" -> "uezds"
                [] fn = "uezds" -> "localities"
                [] fn = "localities" -> "churches"
                [] fn = "churches" -> ""

\* the first argument of __gen_tree_index
IndexDir(f) == IF f.fn = "gubernias" THEN Rel(<<"gubernia">>) ELSE f.pdir

\* __gen_tree_index: the file name handed to file_write
IndexFile(f) == pj(IndexDir(f), Rel(<<"index.rst">>))

\* variant: title=None pasted from __gen_gubernias into every method
IndexTitle_None(f) == PyNone

\* the title handed to the template
IndexTitle(f) == IF f.fn = "gubernias" THEN PyNone ELSE PyStr(f.name)

\* a fresh activation of __gen_<fn>(id, name, pdir)
Frame(fn, id, name, pdir) ==
  [fn |-> fn, id |-> id, name |-> name, pdir |-> pdir,
   pc |-> "execute", rows |-> <<>>, i |-> 1, list |-> <<>>]

Top == stack[Len(stack)]

SetTop(f) == [stack EXCEPT ![Len(stack)] = f]

\* cursor.fetchall(): the rows not yet read
fetchall(c) == SubSeq(c.rows, c.pos + 1, Len(c.rows))

\* variant: the loop walks the shared cursor instead of the fetched list
LoopRows_SharedCursor(f, c) == c.rows

\* the sequence the for loop of activation f walks
LoopRows(f, c) == f.rows

\* the stack after the innermost activation returned
Return ==
  LET rest == SubSeq(stack, 1, Len(stack) - 1)
  IN  IF rest = <<>> THEN rest
      ELSE [rest EXCEPT ![Len(rest)].i = rest[Len(rest)].i + 1]

\* what the run has done so far: one record per query, directory creation,
\* file write and fatal error, naming the method and its parent key
Event(op, fn, key, child, path) ==
  [op |-> op, fn |-> fn, key |-> key, child |-> child, path |-> path]

EvExecute(f) == Event("execute", f.fn, f.id, 0, <<>>)

EvMakedirs(fn, key, child, path) ==
  Event("makedirs", fn, key, child, pj(root_dir, path).segs)

EvWrite(f) == Event("write", f.fn, f.id, 0, pj(root_dir, IndexFile(f)).segs)

EvError(fn, key, path) == Event("error", fn, key, 0, pj(root_dir, path).segs)

\* variant: the except clause prints and carries on
make_dirs_except_pass == [status |-> "running", exitcode |-> -1]

\* except OSError: print(...); sys.exit(1)
make_dirs_except == [status |-> "failed", exitcode |-> 1]

\* variant: the lines after the loop are indented into it, so the loop is left
\* after its first pass
LoopDone_FirstPass(f, c) == f.i > Len(LoopRows(f, c)) \/ f.i > 1

\* the for loop of activation f has no row left
LoopDone(f, c) == f.i > Len(LoopRows(f, c))

(* ------------------------------ states -------------------------------- *)
\* the output root is absent or present and empty
InitialDirs == { Prefixes(Cwd.segs), Prefixes(root_dir.segs) }

Init ==
  /\ \E g \in TablesOver("cfp_gubernia", {0}, MaxNodes) :
       \E u \in TablesOver("cfp_uezd", IdsIn(g), MaxNodes - Len(g)) :
         \E l \in TablesOver("cfp_locality", IdsIn(u), MaxNodes - Len(g) - Len(u)) :
           \E c \in TablesOver("cfp_church", IdsIn(l), MaxNodes - Len(g) - Len(u) - Len(l)) :
             db = [cfp_gubernia |-> g, cfp_uezd |-> u, cfp_locality |-> l, cfp_church |-> c]
  /\ dirs \in InitialDirs
  /\ files = << >>
  /\ cur = [rows |-> <<>>, pos |-> 0]
  /\ current_gub = ""
  /\ stack = <<>>
  /\ status = "start"
  /\ exitcode = -1
  /\ run = 1
  /\ log = <<>>

\* generate(): make_dirs(root_dir), then enter __gen_gubernias(root_dir)
generate ==
  /\ status = "start"
  /\ dirs' = make_dirs(root_dir)
  /\ stack' = <<Frame("gubernias", 0, "", root_dir)>>
  /\ status' = "running"
  /\ log' = Append(log, EvMakedirs("generate", 0, 0, root_dir))
  /\ UNCHANGED <<db, files, cur, current_gub, exitcode, run>>

\* self.cur.execute(...); rows = self.cur.fetchall()
execute ==
  /\ status = "running"
  /\ Top.pc = "execute"
  /\ LET res == Select(TableOf(Top.fn), Top.id)
         c == [rows |-> res, pos |-> 0]
     IN  /\ cur' = [c EXCEPT !.pos = Len(c.rows)]
         /\ stack' = SetTop([Top EXCEPT !.rows = fetchall(c), !.pc = "for"])
  /\ log' = Append(log, EvExecute(Top))
  /\ UNCHANGED <<db, dirs, files, current_gub, status, exitcode, run>>

\* one pass through the loop body: append the link, create the child's
\* directory, enter the method of the next level
for_body ==
  /\ status = "running"
  /\ Top.pc = "for"
  /\ ~LoopDone(Top, cur)
  /\ LET row == LoopRows(Top, cur)[Top.i]
         child_dir == ChildDir(Top.fn, Top.pdir, row.id)
         f == [Top EXCEPT !.list = Append(@, Link(Top.fn, row.id))]
     IN  /\ dirs' = make_dirs(child_dir)
         /\ log' = Append(log, EvMakedirs(Top.fn, Top.id, row.id, child_dir))
         /\ current_gub' = IF Top.fn = "gubernias" THEN row.name ELSE current_gub
         /\ stack' = IF Callee(Top.fn) = ""
                     THEN SetTop([f EXCEPT !.i = @ + 1])
                     ELSE Append(SetTop(f), Frame(Callee(Top.fn), row.id, row.name, child_dir))
  /\ UNCHANGED <<db, files, cur, status, exitcode, run>>

\* after the loop: format the template and write index.rst; open() raises
\* FileNotFoundError when the directory is missing and the process dies
gen_tree_index ==
  /\ status = "running"
  /\ Top.pc = "for"
  /\ LoopDone(Top, cur)
  /\ LET rst == tree_templ(IndexTitle(Top), Top.list)
         fn == IndexFile(Top)
     IN  IF CanOpen(fn)
         THEN /\ files' = file_write(fn, rst)
              /\ log' = Append(log, EvWrite(Top))
              /\ stack' = Return
              /\ status' = IF Len(stack) = 1 THEN "done" ELSE "running"
              /\ exitcode' = IF Len(stack) = 1 THEN 0 ELSE exitcode
         ELSE /\ status' = "failed"
              /\ exitcode' = 1
              /\ log' = Append(log, EvError(Top.fn, Top.id, fn))
              /\ UNCHANGED <<files, stack>>
  /\ UNCHANGED <<db, dirs, cur, current_gub, run>>

\* the tool is started again on the tree a successful run left behind
rerun ==
  /\ status = "done"
  /\ run = 1
  /\ run' = 2
  /\ status' = "start"
  /\ exitcode' = -1
  /\ cur' = [rows |-> <<>>, pos |-> 0]
  /\ current_gub' = ""
  /\ stack' = <<>>
  /\ log' = <<>>
  /\ UNCHANGED <<db, dirs, files>>

Next == generate \/ execute \/ for_body \/ gen_tree_index \/ rerun

Spec == Init /\ [][Next]_vars

(* ------------------------ file system failures ------------------------ *)
\* os.makedirs raises OSError (permission denied, disk full), possibly after
\* it created some of the missing ancestors; make_dirs prints and exits
make_dirs_error ==
  /\ \/ status = "start"
     \/ status = "running" /\ Top.pc = "for" /\ ~LoopDone(Top, cur)
  /\ LET fn == IF status = "start" THEN "generate" ELSE Top.fn
         key == IF status = "start" THEN 0 ELSE Top.id
         path == IF status = "start" THEN root_dir
                 ELSE ChildDir(Top.fn, Top.pdir, LoopRows(Top, cur)[Top.i].id)
         segs == pj(root_dir, path).segs
     IN  /\ \E k \in 0..(Len(segs) - 1) : dirs' = dirs \cup Prefixes(SubSeq(segs, 1, k))
         /\ log' = Append(log, EvError(fn, key, path))
  /\ status' = IF make_dirs_except.status = "failed" THEN "failed" ELSE status
  /\ exitcode' = IF make_dirs_except.status = "failed"
                 THEN make_dirs_except.exitcode ELSE exitcode
  /\ UNCHANGED <<db, files, cur, current_gub, stack, run>>

\* open, write or close raises in file_write although the directory exists:
\* nothing catches it, the interpreter prints the traceback and exits with 1;
\* the file is untouched (open failed) or left truncated
file_write_error ==
  /\ status = "running"
  /\ Top.pc = "for"
  /\ LoopDone(Top, cur)
  /\ CanOpen(IndexFile(Top))
  /\ files' \in {files, file_write(IndexFile(Top), <<Blank>>)}
  /\ log' = Append(log, EvError(Top.fn, Top.id, IndexFile(Top)))
  /\ status' = "failed"
  /\ exitcode' = 1
  /\ UNCHANGED <<db, dirs, cur, current_gub, stack, run>>

NextFail == Next \/ make_dirs_error \/ file_write_error

SpecFail == Init /\ [][NextFail]_vars

(* ====================== properties of the generator ==================== *)
\* the specification's layout: the directory segment of each entity kind
KindSegment(t) == CASE t = "cfp_gubernia" -> "gubernia"
                    [] t = "cfp_uezd" -> "uezd"
                    [] t = "cfp_locality" -> "locality"
                    [] t = "cfp_church" -> "church"

ChildTable(t) == CASE t = "root" -> "cfp_gubernia"
                   [] t = "cfp_gubernia" -> "cfp_uezd"
                   [] t = "cfp_uezd" -> "cfp_locality"
                   [] t = "cfp_locality" -> "cfp_church"

\* the parent records of the hierarchy: the root and every Region, District
\* and Settlement, each as <<table, id>>
Parents ==
  {<<"root", 0>>} \cup
  UNION {{<<t, i>> : i \in IdsIn(db[t])} : t \in {"cfp_gubernia", "cfp_uezd", "cfp_locality"}}

\* the rows the store returns for the children of parent n
ChildRows(n) == Select(ChildTable(n[1]), n[2])

Logged(op) == {k \in 1..Len(log) : log[k].op = op}

\* the positions of the log at which the directory of row id of table t was created
Created(t, id) ==
  {k \in Logged("makedirs") : log[k].fn # "generate" /\ TableOf(log[k].fn) = t /\ log[k].child = id}

\* the positions of the log at which the index document of parent n was written
Written(n) ==
  {k \in Logged("write") : ChildTable(n[1]) = TableOf(log[k].fn) /\ log[k].key = n[2]}

\* the positions of the log at which the children of parent n were queried
Queried(n) ==
  {k \in Logged("execute") : ChildTable(n[1]) = TableOf(log[k].fn) /\ log[k].key = n[2]}

\* the parent whose activation issued log entry e
ParentOf(e) == IF e.fn = "gubernias" THEN <<"root", 0>>
               ELSE <<ParentTable(TableOf(e.fn)), e.key>>

Front(q) == SubSeq(q, 1, Len(q) - 1)

IsPrefix(a, b) == Len(a) <= Len(b) /\ SubSeq(b, 1, Len(a)) = a

\* the display name of row id of table t
DisplayName(t, id) ==
  LET k == CHOOSE j \in 1..Len(db[t]) : db[t][j].id = id IN db[t][k].name

\* the directories lying directly under segment seg of directory d
DirsUnder(d, seg) ==
  {x \in dirs : Len(x) = Len(d) + 2 /\ IsPrefix(Append(d, seg), x)}

\* C1: every index document written in this run lists one link per child row
\* of its node, in the store's order; at the Region, District and Settlement
\* levels the link is <childKind>/<childId>/index with the segment under which
\* the child's directory was created, and at every level the link, resolved
\* against the document's directory, is the child's own directory.
C1_LinksNameChildDirs ==
  \A k \in Logged("write") :
    LET e == log[k]
        doc == files[e.path]
        docdir == Front(e.path)
        rows == ChildRows(ParentOf(e))
        m == MembersOf(doc)
    IN  /\ Len(m) = Len(rows)
        /\ \A j \in 1..Len(m) :
             \E c \in Created(TableOf(e.fn), rows[j].id) :
               /\ m[j].indent = 3
               /\ m[j].text[Len(m[j].text)] = "index"
               /\ docdir \o Front(m[j].text) = log[c].path
               /\ e.fn # "gubernias" =>
                    m[j].text = <<log[c].path[Len(log[c].path) - 1],
                                  ToString(rows[j].id), "index">>

\* C2: after a successful run on an initially empty output root, under every
\* parent (the root, each Region, District, Settlement) the number of
\* directories below the child-kind segment equals the number of child rows.
C2_ChildDirCountEqualsRows ==
  (status = "done" /\ run = 1) =>
    \A n \in Parents :
      /\ n[1] = "root" =>
           Cardinality(DirsUnder(root_dir.segs, KindSegment("cfp_gubernia"))) = Len(ChildRows(n))
      /\ n[1] # "root" =>
           \E c \in Created(n[1], n[2]) :
             Cardinality(DirsUnder(log[c].path, KindSegment(ChildTable(n[1]))))
               = Len(ChildRows(n))

C2_Witness ==
  /\ status = "done" /\ run = 1
  /\ \E n \in Parents : n[1] = "cfp_locality" /\ Len(ChildRows(n)) = 2

\* C3: the root-level index document has the empty title and every other
\* index document has the display name of its node as title.
C3_Titles ==
  \A k \in Logged("write") :
    LET e == log[k]
        n == ParentOf(e)
    IN  TitleOf(files[e.path]) = IF n[1] = "root" THEN "" ELSE DisplayName(n[1], n[2])

\* C4: a second run on the tree left by a successful first run, with the data
\* unchanged, succeeds and at no step adds, removes or changes a directory or
\* an index document.
C4_Idempotent ==
  [][run = 2 => (dirs' = dirs /\ files' = files /\ status' # "failed")]_vars

C4_Witness ==
  /\ run = 2 /\ status = "done"
  /\ Cardinality(DOMAIN files) >= 4
  /\ Len(db.cfp_church) >= 1

Failed == Logged("error") # {}

Below(n) ==
  LET kids(x) == IF x[1] = "cfp_church" THEN {}
                 ELSE {<<ChildTable(x[1]), ChildRows(x)[j].id>> : j \in 1..Len(ChildRows(x))}
      d1 == kids(n)
      d2 == UNION {kids(x) : x \in d1}
      d3 == UNION {kids(x) : x \in d2}
      d4 == UNION {kids(x) : x \in d3}
  IN  d1 \cup d2 \cup d3 \cup d4

\* C6: an index document is written only after the directory of its node and
\* the directories of all records below it were created and the index
\* documents of all non-leaf records below it were written; the root-level
\* document is the last thing a successful run writes.
C6_PostOrder ==
  /\ \A k \in Logged("write") :
       LET n == ParentOf(log[k])
       IN  /\ n[1] # "root" => \E c \in Created(n[1], n[2]) : c < k
           /\ \A x \in Below(n) :
                /\ \E c \in Created(x[1], x[2]) : c < k
                /\ x[1] # "cfp_church" => \E w \in Written(x) : w < k
  /\ status = "done" =>
       /\ log[Len(log)].op = "write"
       /\ ParentOf(log[Len(log)]) = <<"root", 0>>

C6_Witness ==
  /\ status = "done" /\ run = 1
  /\ Len(db.cfp_church) >= 1
  /\ Len(db.cfp_gubernia) = 2

EmptyRegions ==
  {i \in IdsIn(db.cfp_gubernia) : Select("cfp_uezd", i) = <<>>}

RegionDir(i) == root_dir.segs \o <<"gubernia", ToString(i)>>

\* C8: after a run on an initially empty output root, a Region without
\* Districts has its directory and an index document with the Region's name as
\* title and no member, and its directory has no uezd subdirectory.
C8_EmptyRegion ==
  (status = "done" /\ run = 1) =>
    \A i \in EmptyRegions :
      /\ RegionDir(i) \in dirs
      /\ Append(RegionDir(i), "index.rst") \in DOMAIN files
      /\ TitleOf(files[Append(RegionDir(i), "index.rst")]) = DisplayName("cfp_gubernia", i)
      /\ MembersOf(files[Append(RegionDir(i), "index.rst")]) = <<>>
      /\ Append(RegionDir(i), "uezd") \notin dirs

C8_Witness ==
  /\ status = "done" /\ run = 1
  /\ EmptyRegions # {}
  /\ Len(db.cfp_uezd) >= 1

\* C9: the directory that is to hold the root-level index document exists when
\* the document is written, so the run on a store without Regions completes
\* and leaves <root>/gubernia/index.rst with an empty member list.
C9_RootIndexWritable ==
  /\ \A k \in Logged("error") : log[k].fn # "gubernias"
  /\ (db.cfp_gubernia = <<>> /\ status \in {"done", "failed"}) =>
       /\ status = "done"
       /\ root_dir.segs \o <<"gubernia", "index.rst">> \in DOMAIN files
       /\ MembersOf(files[root_dir.segs \o <<"gubernia", "index.rst">>]) = <<>>

\* the ids of the children created so far by the activation for parent n, in order
Iterated(n) ==
  LET RECURSIVE Walk(_)
      Walk(k) == IF k > Len(log) THEN <<>>
                 ELSE IF log[k].op = "makedirs" /\ log[k].fn # "generate"
                         /\ ParentOf(log[k]) = n
                      THEN <<log[k].child>> \o Walk(k + 1)
                      ELSE Walk(k + 1)
  IN  Walk(1)

RowIds(n) == [j \in 1..Len(ChildRows(n)) |-> ChildRows(n)[j].id]

\* C10: the children a level walks for a parent are the rows of that parent's
\* own query, all of them and in the returned order, whatever was queried for
\* descendants in between; no parent is queried twice in a run, and every
\* loop pass belongs to a parent that was queried.
C10_LoopWalksOwnRows ==
  \A n \in Parents :
    /\ Cardinality(Queried(n)) <= 1
    /\ IsPrefix(Iterated(n), RowIds(n))
    /\ Iterated(n) # <<>> => Cardinality(Queried(n)) = 1
    /\ Written(n) # {} => (Iterated(n) = RowIds(n) /\ Cardinality(Queried(n)) = 1)

C10_Witness ==
  /\ status = "done" /\ run = 1
  /\ Len(db.cfp_gubernia) = 2
  /\ Select("cfp_uezd", db.cfp_gubernia[1].id) # <<>>
  /\ Len(db.cfp_locality) >= 1

====
